---- MODULE Spec2Model ----
(***************************************************************************)
(* A model of pydaymet's core (src/pydaymet/core.py): the Daymet           *)
(* constructor, the leap-year date helpers, the requirement checker and    *)
(* the two FAO-56 PET engines, pet_bycoords and pet_bygrid.                *)
(*                                                                         *)
(* Strings are sequences of character codes (a digit is its value),        *)
(* timestamps are a day number counted from 1980-01-01 and an hour, and    *)
(* floating-point values are either exact binary floats (the vapor         *)
(* pressure, which the engines rescale) or terms built by the arithmetic   *)
(* the engines perform on them.                                            *)
(***************************************************************************)
EXTENDS Integers, Sequences, FiniteSets, TLC

VARIABLES dl, obj, chk, pt, gr

vars == <<dl, obj, chk, pt, gr>>

Idle == [pc |-> "idle"]

(***************************************************************************)
(* Bounds of the model                                                     *)
(***************************************************************************)
\* the last year whose whole-year range is checked
MaxYear == 2101
\* the longest short date range, in days, drawn around a year's end
MaxSpan == 3
\* the number of grid cells of a dataset
NumCells == 2
\* the number of time steps of a container
NumSteps == 2
\* the longest list of required names handed to the requirement checker
MaxReqs == 3
\* the largest vapor pressure, in pascals, of an input container
MaxVp == 12

(***************************************************************************)
(* Strings and the calendar                                                *)
(***************************************************************************)
Dash == 10
Comma == 11

\* str(n) for n >= 0: the decimal digits, most significant first
RECURSIVE str(_)
str(n) == IF n < 10 THEN <<n>> ELSE Append(str(n \div 10), n % 10)

\* int(s) for a string of decimal digits
RECURSIVE int(_)
int(s) == IF Len(s) = 0 THEN 0 ELSE 10 * int(SubSeq(s, 1, Len(s) - 1)) + s[Len(s)]

\* a number printed on two digits, as %m and %d print it
Pad2(n) == <<n \div 10, n % 10>>

\* pandas' is_leap_year: the Gregorian rule
is_leap_year(y) == (y % 4 = 0 /\ y % 100 # 0) \/ y % 400 = 0

LeapsThrough(y) == (y \div 4) - (y \div 100) + (y \div 400)

\* days from 1980-01-01 to January 1 of year y
DaysBeforeYear(y) == 365 * (y - 1980) + LeapsThrough(y - 1) - LeapsThrough(1979)

DaysInMonth(y, m) ==
    IF m = 2 THEN (IF is_leap_year(y) THEN 29 ELSE 28)
    ELSE IF m \in {4, 6, 9, 11} THEN 30 ELSE 31

RECURSIVE DaysBeforeMonth(_, _)
DaysBeforeMonth(y, m) ==
    IF m = 1 THEN 0 ELSE DaysBeforeMonth(y, m - 1) + DaysInMonth(y, m - 1)

\* the day number of the calendar date y-m-d
ToOrdinal(y, m, d) == DaysBeforeYear(y) + DaysBeforeMonth(y, m) + d - 1

YearOf(n) ==
    LET y0 == 1980 + (n \div 366)
    IN  CHOOSE y \in y0 .. y0 + 1 : DaysBeforeYear(y) <= n /\ n < DaysBeforeYear(y + 1)

MonthOf(n) ==
    LET y == YearOf(n)
        r == n - DaysBeforeYear(y)
    IN  CHOOSE m \in 1 .. 12 :
            DaysBeforeMonth(y, m) <= r /\ r < DaysBeforeMonth(y, m) + DaysInMonth(y, m)

DayOf(n) == n - DaysBeforeYear(YearOf(n)) - DaysBeforeMonth(YearOf(n), MonthOf(n)) + 1

\* Timestamp.dayofyear
dayofyear(n) == n - DaysBeforeYear(YearOf(n)) + 1

\* a timestamp: a day number and an hour of that day
Timestamp(n, h) == [day |-> n, hour |-> h]

\* Timestamp.strftime(DATE_FMT) with DATE_FMT = "%Y-%m-%d"
strftime(ts) ==
    str(YearOf(ts.day)) \o <<Dash>> \o Pad2(MonthOf(ts.day)) \o <<Dash>> \o Pad2(DayOf(ts.day))

\* pd.to_datetime of a date string, "YYYY-MM-DD" or "YYYYMMDD": midnight of that day
to_datetime(s) ==
    LET n == Len(s)
        iso == n >= 6 /\ s[n - 2] = Dash
        y == IF iso THEN int(SubSeq(s, 1, n - 6)) ELSE int(SubSeq(s, 1, n - 4))
        m == IF iso THEN int(SubSeq(s, n - 4, n - 3)) ELSE int(SubSeq(s, n - 3, n - 2))
        d == int(SubSeq(s, n - 1, n))
    IN  Timestamp(ToOrdinal(y, m, d), 0)

\* ts + pd.DateOffset(hour=h): the hour of the day is replaced
DateOffsetHour(ts, h) == [ts EXCEPT !.hour = h]

\* the date string of the calendar date y-m-d, as a caller writes it
IsoDate(y, m, d) == str(y) \o <<Dash>> \o Pad2(m) \o <<Dash>> \o Pad2(d)

(***************************************************************************)
(* Daymet.dates_todict, Daymet.years_todict, Daymet.dates_tolist,          *)
(* Daymet.years_tolist                                                     *)
(***************************************************************************)
Raised(kind, what) == [raised |-> TRUE, kind |-> kind, value |-> what]
Returned(v) == [raised |-> FALSE, kind |-> "return", value |-> v]

dates_todict(dates) ==
    LET start == to_datetime(dates[1])
        end == to_datetime(dates[2])
    IN  IF start.day < to_datetime(IsoDate(1980, 1, 1)).day
        THEN Raised("InvalidInputRange", "Daymet database ranges from 1980 to 2019.")
        ELSE Returned([start |-> strftime(start), end |-> strftime(end)])

RECURSIVE JoinComma(_)
JoinComma(ss) ==
    IF Len(ss) = 0 THEN <<>>
    ELSE IF Len(ss) = 1 THEN ss[1]
    ELSE ss[1] \o <<Comma>> \o JoinComma(Tail(ss))

RECURSIVE SplitComma(_)
SplitComma(s) ==
    IF \A i \in 1 .. Len(s) : s[i] # Comma THEN <<s>>
    ELSE LET k == CHOOSE i \in 1 .. Len(s) : s[i] = Comma /\ \A j \in 1 .. i - 1 : s[j] # Comma
         IN  <<SubSeq(s, 1, k - 1)>> \o SplitComma(SubSeq(s, k + 1, Len(s)))

\* years is an int or a list of ints, given here as the list
years_todict(years) == [years |-> JoinComma([i \in 1 .. Len(years) |-> str(years[i])])]

\* pd.date_range(start, end): one timestamp a day, from start while not after end
date_range(start, end) ==
    [i \in 1 .. (IF end.day >= start.day THEN end.day - start.day + 1 ELSE 0) |->
        Timestamp(start.day + i - 1, start.hour)]

EndsWith1231(s) == Len(s) >= 5 /\ SubSeq(s, Len(s) - 4, Len(s)) = <<1, 2, Dash, 3, 1>>

\* Index.unique() of the years of a period, which is in ascending order: the
\* years present, in the order they first appear
UniqueYears(p) ==
    IF Len(p) = 0 THEN <<>>
    ELSE LET first == YearOf(p[1].day)
             last == YearOf(p[Len(p)].day)
             Present(y) == \E i \in 1 .. Len(p) : YearOf(p[i].day) = y
         IN  SelectSeq([i \in 1 .. last - first + 1 |-> first + i - 1], Present)

dates_tolist(dates) ==
    LET date_dict == dates_todict(dates)
    IN  IF date_dict.raised THEN date_dict
        ELSE
          LET start == DateOffsetHour(to_datetime(date_dict.value.start), 12)
              end == DateOffsetHour(to_datetime(date_dict.value.end), 12)
              period == date_range(start, end)
              IsNl(t) == ~is_leap_year(YearOf(t.day))
              IsLp(t) == is_leap_year(YearOf(t.day)) /\ ~EndsWith1231(strftime(t))
              nl == SelectSeq(period, IsNl)
              lp == SelectSeq(period, IsLp)
              In(t, q) == \E i \in 1 .. Len(q) : q[i] = t
              Keep(t) == In(t, nl) \/ In(t, lp)
              _period == SelectSeq(period, Keep)
              ys == UniqueYears(_period)
              OfYear(y) == LET Same(t) == YearOf(t.day) = y IN SelectSeq(_period, Same)
          IN  Returned([i \in 1 .. Len(ys) |->
                  <<OfYear(ys[i])[1], OfYear(ys[i])[Len(OfYear(ys[i]))]>>])

\* the leap-year test years_tolist writes out itself
YearRuleBroken(year) == int(year) % 4 = 0

YearRule(year) ==
    int(year) % 4 = 0 /\ (int(year) % 100 # 0 \/ int(year) % 400 = 0)

years_tolist(years) ==
    LET date_dict == years_todict(years)
        ys == SplitComma(date_dict.years)
        s(year) == to_datetime(year \o <<0, 1, 0, 1>>)
        e(year) == IF YearRule(year)
                   THEN to_datetime(year \o <<1, 2, 3, 0>>)
                   ELSE to_datetime(year \o <<1, 2, 3, 1>>)
    IN  Returned([i \in 1 .. Len(ys) |->
            <<DateOffsetHour(s(ys[i]), 12), DateOffsetHour(e(ys[i]), 12)>>])

\* a call of dates_tolist and of years_tolist on the drawn arguments
DatesCall ==
    /\ dl.pc = "call"
    /\ dl' = [dl EXCEPT !.pc = "done",
                        !.by_dates = dates_tolist(dl.dates),
                        !.by_years = years_tolist(dl.years)]
    /\ UNCHANGED <<obj, chk, pt, gr>>

\* the date ranges drawn: whole years, and short and long ranges around a year's end
WholeYear(y) == <<IsoDate(y, 1, 1), IsoDate(y, 12, 31)>>

EdgeYears == {1979, 1980, 1999, 2000, 2099, 2100}

EdgeStarts == {ToOrdinal(y, 12, 29) + k : y \in EdgeYears, k \in 0 .. 4}

Spans == (0 - 2 .. MaxSpan) \cup {364, 365, 366, 367, 731}

DateOfOrdinal(n) == strftime(Timestamp(n, 0))

InitDates ==
    /\ \/ \E y \in 1979 .. MaxYear :
            dl = [pc |-> "call", whole |-> TRUE, dates |-> WholeYear(y), years |-> <<y>>,
                  by_dates |-> <<>>, by_years |-> <<>>]
       \/ \E s \in EdgeStarts, k \in Spans :
            dl = [pc |-> "call", whole |-> FALSE,
                  dates |-> <<DateOfOrdinal(s), DateOfOrdinal(s + k)>>,
                  years |-> <<YearOf(s), YearOf(s) + 1>>,
                  by_dates |-> <<>>, by_years |-> <<>>]
    /\ obj = Idle /\ chk = Idle /\ pt = Idle /\ gr = Idle

SpecDates == InitDates /\ [][DatesCall]_vars


(***************************************************************************)
(* Daymet.__init__ and Daymet.check_input_validity                         *)
(***************************************************************************)
valid_regions == <<"na", "hi", "pr">>

time_codes == <<"daily", "monthly", "annual">>

valid_variables == <<"dayl", "prcp", "srad", "swe", "tmax", "tmin", "vp">>

reqs_pet == <<"tmin", "tmax", "vp", "srad", "dayl">>

Range(s) == {s[i] : i \in 1 .. Len(s)}

check_input_validity(inp, valid_list) ==
    IF inp \notin Range(valid_list) THEN Raised("InvalidInputValue", inp) ELSE Returned(inp)

\* The arguments are [kind, value]: kind "none" (None), "str" (one name) or
\* "list" (a list of names).  The list built from a set has no order of its
\* own and is kept as the set of its members.
AsList(variables) == IF variables.kind = "str" THEN <<variables.value>> ELSE variables.value

\* the body of the branch taken when variables is not None
InitGivenGuarded(variables, pet, time_scale) ==
    LET vs == AsList(variables)
    IN  IF ~(Range(vs) \subseteq Range(valid_variables))
        THEN Raised("InvalidInputValue", "variables")
        ELSE IF pet /\ time_scale # "daily"
        THEN Raised("InvalidInputRange",
                    "PET can only be computed at daily scale i.e., time_scale must be daily.")
        ELSE IF pet
        THEN Returned(Range(reqs_pet) \cup Range(vs))
        ELSE Returned(Range(vs))

DaymetInit(variables, pet, time_scale, region) ==
    LET r == check_input_validity(region, valid_regions)
        t == check_input_validity(time_scale, time_codes)
        v == IF variables.kind = "none"
             THEN Returned(Range(valid_variables))
             ELSE InitGivenGuarded(variables, pet, time_scale)
    IN  IF r.raised THEN r
        ELSE IF t.raised THEN t
        ELSE IF v.raised THEN v
        ELSE Returned([region |-> r.value, time_scale |-> t.value, variables |-> v.value])

\* Daymet(variables, pet, time_scale, region) is constructed
Construct ==
    /\ obj.pc = "new"
    /\ obj' = [obj EXCEPT !.pc = "done",
                          !.result = DaymetInit(obj.variables, obj.pet, obj.time_scale, obj.region)]
    /\ UNCHANGED <<dl, chk, pt, gr>>

VarNames == Range(valid_variables) \cup {"pet"}

VariableArgs ==
    {[kind |-> "none", value |-> <<>>]}
    \cup {[kind |-> "str", value |-> n] : n \in VarNames}
    \cup {[kind |-> "list", value |-> <<>>]}
    \cup {[kind |-> "list", value |-> <<n>>] : n \in VarNames}
    \cup {[kind |-> "list", value |-> <<n, m>>] : n \in VarNames, m \in VarNames}
    \cup {[kind |-> "list", value |-> reqs_pet]}

InitObj ==
    /\ \E v \in VariableArgs, p \in BOOLEAN,
          t \in Range(time_codes) \cup {"hourly"}, r \in Range(valid_regions) \cup {"conus"} :
            obj = [pc |-> "new", variables |-> v, pet |-> p, time_scale |-> t, region |-> r,
                   result |-> Returned(<<>>)]
    /\ dl = Idle /\ chk = Idle /\ pt = Idle /\ gr = Idle

SpecInit == InitObj /\ [][Construct]_vars

(***************************************************************************)
(* _check_requirements                                                     *)
(***************************************************************************)
\* missing = [r for r in reqs if r not in cols], with a plausible slip
MissingBroken(reqs, cols) ==
    LET Absent(r) == r \notin cols IN IF \E i \in 1 .. Len(reqs) : Absent(reqs[i]) THEN reqs ELSE <<>>

Missing(reqs, cols) == LET Absent(r) == r \notin cols IN SelectSeq(reqs, Absent)

\* reqs is [iterable, items]; cols is the set of the names present
check_requirements(reqs, cols) ==
    IF ~reqs.iterable THEN Raised("InvalidInputType", "reqs")
    ELSE IF Missing(reqs.items, cols) # <<>>
    THEN Raised("MissingItems", Missing(reqs.items, cols))
    ELSE Returned("None")

Iterable(items) == [iterable |-> TRUE, items |-> items]

CheckCall ==
    /\ chk.pc = "call"
    /\ chk' = [chk EXCEPT !.pc = "done", !.result = check_requirements(chk.reqs, chk.cols)]
    /\ UNCHANGED <<dl, obj, pt, gr>>

CheckNames == {"tmin", "tmax", "vp", "lat"}

RECURSIVE SeqsUpTo(_, _)
SeqsUpTo(S, n) ==
    IF n = 0 THEN {<<>>}
    ELSE LET shorter == SeqsUpTo(S, n - 1)
         IN  shorter \cup {Append(q, x) : q \in shorter, x \in S}

CheckCalls ==
    {[pc |-> "call", reqs |-> r, cols |-> c, result |-> Returned("None")] :
        r \in {Iterable(q) : q \in SeqsUpTo(CheckNames, MaxReqs)}
              \cup {[iterable |-> FALSE, items |-> <<>>]},
        c \in SUBSET CheckNames}


(***************************************************************************)
(* Binary floating point.  A natural number is the sequence of its base    *)
(* 4096 digits, least significant first and without leading zeros; a       *)
(* float of precision P (24 for float32, 53 for float64) is a mantissa of  *)
(* exactly P bits and an exponent, standing for mantissa * 2^exponent, or  *)
(* zero (the empty mantissa).  Products are rounded to the nearest float,  *)
(* ties to even, as IEEE 754 multiplication does.                          *)
(***************************************************************************)
\* the width, in bits, of a digit of a natural number
LimbBits == 12

Precisions == {24, 53}

RECURSIVE Pow2(_)
Pow2(k) == IF k = 0 THEN 1 ELSE 2 * Pow2(k - 1)

Limb == Pow2(LimbBits)

RECURSIVE NatOfInt(_)
NatOfInt(n) == IF n = 0 THEN <<>> ELSE <<n % Limb>> \o NatOfInt(n \div Limb)

\* drop the leading zero digits
RECURSIVE NatTrim(_)
NatTrim(a) ==
    IF Len(a) > 0 /\ a[Len(a)] = 0 THEN NatTrim(SubSeq(a, 1, Len(a) - 1)) ELSE a

RECURSIVE NatAddC(_, _, _)
NatAddC(a, b, c) ==
    IF Len(a) = 0 /\ Len(b) = 0 THEN (IF c = 0 THEN <<>> ELSE <<c>>)
    ELSE LET x == IF Len(a) = 0 THEN 0 ELSE a[1]
             y == IF Len(b) = 0 THEN 0 ELSE b[1]
             t == x + y + c
         IN  <<t % Limb>> \o NatAddC(IF Len(a) = 0 THEN a ELSE Tail(a),
                                     IF Len(b) = 0 THEN b ELSE Tail(b), t \div Limb)

NatAdd(a, b) == NatAddC(a, b, 0)

\* a - 1, for a > 0
RECURSIVE NatPredRaw(_)
NatPredRaw(a) ==
    IF a[1] > 0 THEN <<a[1] - 1>> \o Tail(a) ELSE <<Limb - 1>> \o NatPredRaw(Tail(a))

NatPred(a) == NatTrim(NatPredRaw(a))

\* a times one digit d, plus a carry
RECURSIVE NatScaleC(_, _, _)
NatScaleC(a, d, c) ==
    IF Len(a) = 0 THEN (IF c = 0 THEN <<>> ELSE <<c>>)
    ELSE LET t == a[1] * d + c
         IN  <<t % Limb>> \o NatScaleC(Tail(a), d, t \div Limb)

RECURSIVE NatMul(_, _)
NatMul(a, b) ==
    IF Len(a) = 0 \/ Len(b) = 0 THEN <<>>
    ELSE LET rest == NatMul(a, Tail(b))
         IN  NatTrim(NatAdd(NatScaleC(a, b[1], 0),
                            IF Len(rest) = 0 THEN rest ELSE <<0>> \o rest))

IntBitLen(n) == IF n = 0 THEN 0 ELSE CHOOSE k \in 1 .. LimbBits : Pow2(k - 1) <= n /\ n < Pow2(k)

BitLen(a) == IF Len(a) = 0 THEN 0 ELSE LimbBits * (Len(a) - 1) + IntBitLen(a[Len(a)])

\* bit i of a, bit 0 the least significant
Bit(a, i) ==
    IF i \div LimbBits + 1 > Len(a) THEN 0
    ELSE (a[i \div LimbBits + 1] \div Pow2(i % LimbBits)) % 2

\* the number whose bits are those of a from bit d on: floor(a / 2^d)
NatShr(a, d) ==
    LET n == BitLen(a) - d
        Digit(k) ==
            LET lo == a[k + d \div LimbBits] \div Pow2(d % LimbBits)
                hi == IF k + d \div LimbBits + 1 > Len(a) THEN 0
                      ELSE (a[k + d \div LimbBits + 1] % Pow2(d % LimbBits))
                               * Pow2(LimbBits - (d % LimbBits))
            IN  lo + hi
    IN  IF n <= 0 THEN <<>>
        ELSE NatTrim([k \in 1 .. (n + LimbBits - 1) \div LimbBits |-> Digit(k)])

\* a * 2^d
NatShl(a, d) ==
    IF Len(a) = 0 THEN a
    ELSE [k \in 1 .. d \div LimbBits |-> 0] \o NatScaleC(a, Pow2(d % LimbBits), 0)

Float(m, e) == <<"f", m, e>>

NaN == <<"nan">>

IsNaN(v) == v[1] = "nan"

\* n * 2^e rounded to P bits, to nearest and ties to even
FRound(n, e, P) ==
    LET L == BitLen(n)
        d == L - P
        kept == NatShr(n, d)
        guard == Bit(n, d - 1)
        sticky == \E i \in 0 .. d - 2 : Bit(n, i) = 1
        up == guard = 1 /\ (sticky \/ Bit(kept, 0) = 1)
        m == IF up THEN NatAdd(kept, <<1>>) ELSE kept
    IN  IF L = 0 THEN Float(<<>>, 0)
        ELSE IF L <= P THEN Float(NatShl(n, P - L), e - (P - L))
        ELSE IF BitLen(m) > P THEN Float(NatShr(m, 1), e + d + 1)
        ELSE Float(m, e + d)

\* numpy's multiplication of two floats of precision P
FMul(a, b, P) ==
    IF IsNaN(a) \/ IsNaN(b) THEN NaN
    ELSE FRound(NatMul(a[2], b[2]), a[3] + b[3], P)

\* the float of precision P whose value is the natural number n < 2^P
FloatOfInt(n, P) == FRound(NatOfInt(n), 0, P)

\* floor(a / d) for a digit d, most significant digit first, with remainder r
RECURSIVE NatDivSmall(_, _, _)
NatDivSmall(a, d, r) ==
    IF Len(a) = 0 THEN <<>>
    ELSE LET cur == r * Limb + a[Len(a)]
         IN  Append(NatDivSmall(SubSeq(a, 1, Len(a) - 1), d, cur % d), cur \div d)

\* the Python float literal 1e-3: the float64 nearest to 1/1000.  2^67 / 1000
\* has 58 bits; the remainder is not zero, which the appended low bit records.
Literal1em3 ==
    LET q == NatTrim(NatDivSmall(NatShl(<<1>>, 67), 1000, 0))
    IN  FRound(NatAdd(NatShl(q, 1), <<1>>), 0 - 68, 53)

\* the Python float literal 1.0e3
Literal1e3 == FRound(NatOfInt(1000), 0, 53)

\* a Python float operand converted to the precision of the array it meets
AsType(f, P) == FRound(f[2], f[3], P)

\* the next float above, and the next float below, a positive float
FUp(f, P) ==
    LET m == NatAdd(f[2], <<1>>)
    IN  IF BitLen(m) > P THEN Float(NatShr(m, 1), f[3] + 1) ELSE Float(m, f[3])

FDown(f, P) ==
    LET m == NatPred(f[2])
    IN  IF BitLen(m) < P THEN Float(NatAdd(NatShl(m, 1), <<1>>), f[3] - 1) ELSE Float(m, f[3])

\* b is a but for at most k steps to a neighbouring float
RECURSIVE WithinUlps(_, _, _, _)
WithinUlps(a, b, k, P) ==
    \/ a = b
    \/ /\ k > 0
       /\ ~IsNaN(a) /\ ~IsNaN(b)
       /\ Len(a[2]) > 0 /\ Len(b[2]) > 0
       /\ \/ WithinUlps(FUp(a, P), b, k - 1, P)
          \/ WithinUlps(FDown(a, P), b, k - 1, P)


(***************************************************************************)
(* The arithmetic of the PET formula.  A value is NaN, a float, a          *)
(* constant of the source, an input value, or the term of an operation on  *)
(* values; any operation on NaN gives NaN, as in numpy.                    *)
(***************************************************************************)
K(c) == <<"const", c>>

\* the input value of variable v at time step t in grid cell c
Val(v, t, c) == <<"val", v, t, c>>

Bin(op, a, b) == IF IsNaN(a) \/ IsNaN(b) THEN NaN ELSE <<op, a, b>>

Un(op, a) == IF IsNaN(a) THEN NaN ELSE <<op, a>>

Add(a, b) == Bin("+", a, b)

Sub(a, b) == Bin("-", a, b)

Mul(a, b) == Bin("*", a, b)

Div(a, b) == Bin("/", a, b)

Pow(a, b) == Bin("**", a, b)

Neg(a) == Un("neg", a)

Exp(a) == Un("exp", a)

Sqrt(a) == Un("sqrt", a)

Cos(a) == Un("cos", a)

Sin(a) == Un("sin", a)

Tan(a) == Un("tan", a)

Arccos(a) == Un("arccos", a)

Pi == K("pi")

\* a day-of-year number as a value; it is at most 366 and exact in every dtype
Doy(n) == <<"doy", n>>

(***************************************************************************)
(* Daymet.pet_bycoords                                                     *)
(***************************************************************************)
\* A table is [columns, index]: columns maps each column name to the sequence
\* of its values, index is the sequence of the rows' timestamps.
units ==
    [srad |-> <<"W/m2", "W/m^2">>,
     tmax |-> <<"degrees C", "deg c">>,
     tmin |-> <<"degrees C", "deg c">>]

Unit(name, alt_unit) == units[name][IF alt_unit THEN 2 ELSE 1]

va_pa == "vp (Pa)"

tmin_c(alt_unit) == "tmin (" \o Unit("tmin", alt_unit) \o ")"

tmax_c(alt_unit) == "tmax (" \o Unit("tmax", alt_unit) \o ")"

srad_wm2(alt_unit) == "srad (" \o Unit("srad", alt_unit) \o ")"

dayl_s == "dayl (s)"

tmean_c == "tmean (deg c)"

pet_c == "pet (mm/day)"

PtReqs(alt_unit) == <<tmin_c(alt_unit), tmax_c(alt_unit), va_pa, srad_wm2(alt_unit), dayl_s>>

\* df[name] = column: the column is added, or replaced when it is there
SetColumn(df, name, column) ==
    [df EXCEPT !.columns =
        [c \in DOMAIN df.columns \cup {name} |-> IF c = name THEN column ELSE df.columns[c]]]

\* df.drop(columns=name): a new table without the column
DropColumn(df, name) ==
    [df EXCEPT !.columns = [c \in DOMAIN df.columns \ {name} |-> df.columns[c]]]

Rows(df) == 1 .. Len(df.index)

\* line 254
PtTmeanColumn(df, au) ==
    [i \in Rows(df) |-> Mul(K("0.5"), Add(df.columns[tmax_c(au)][i], df.columns[tmin_c(au)][i]))]

\* lines 255-264
PtDeltaV(tmean) ==
    Div(Mul(K("4098"),
            Mul(K("0.6108"), Exp(Div(Mul(K("17.27"), tmean), Add(tmean, K("237.3")))))),
        Pow(Add(tmean, K("237.3")), K("2")))

\* line 267
PtPa(elevation) ==
    Mul(K("101.3"),
        Pow(Div(Sub(K("293.0"), Mul(K("0.0065"), elevation)), K("293.0")), K("5.26")))

\* line 268
PtGamma(elevation) == Mul(PtPa(elevation), K("0.665e-3"))

\* line 271: the column times the literal 1e-3, in the column's precision
PtVpToKpa(column, P) == [i \in DOMAIN column |-> FMul(column[i], AsType(Literal1em3, P), P)]

\* line 312 with the scaling left out
PtVpToPaForgotten(column, P) == column

\* line 312: the column times the literal 1.0e3
PtVpToPa(column, P) == [i \in DOMAIN column |-> FMul(column[i], AsType(Literal1e3, P), P)]

\* lines 273-276
PtESat(t) == Mul(K("0.6108"), Exp(Div(Mul(K("17.27"), t), Add(t, K("237.3")))))

PtEDef(tmax, tmin, vp) == Sub(Mul(Add(PtESat(tmax), PtESat(tmin)), K("0.5")), vp)

\* line 281
PtRSurf(srad, dayl) == Mul(Mul(srad, dayl), K("1e-6"))

\* lines 285-297
PtJp(jday) == Div(Mul(Mul(K("2.0"), Pi), jday), K("365.0"))

PtDr(jday) == Add(K("1.0"), Mul(K("0.033"), Cos(PtJp(jday))))

PtDeltaR(jday) == Mul(K("0.409"), Sin(Sub(PtJp(jday), K("1.39"))))

PtPhi(lat) == Div(Mul(lat, Pi), K("180.0"))

PtWs(jday, lat) == Arccos(Mul(Neg(Tan(PtPhi(lat))), Tan(PtDeltaR(jday))))

PtRAero(jday, lat) ==
    Mul(Mul(Mul(Div(Mul(K("24.0"), K("60.0")), Pi), K("0.082")), PtDr(jday)),
        Add(Mul(Mul(PtWs(jday, lat), Sin(PtPhi(lat))), Sin(PtDeltaR(jday))),
            Mul(Mul(Cos(PtPhi(lat)), Cos(PtDeltaR(jday))), Sin(PtWs(jday, lat)))))

\* line 298
PtRadS(elevation, jday, lat) ==
    Mul(Add(K("0.75"), Mul(K("2e-5"), elevation)), PtRAero(jday, lat))

\* line 299, with alb = 0.23
PtRadNs(r_surf) == Mul(Sub(K("1.0"), K("0.23")), r_surf)

\* lines 300-305
PtRadNl(tmax, tmin, vp, r_surf, rad_s) ==
    Mul(Mul(Mul(K("4.903e-9"),
                Mul(Add(Pow(Add(tmax, K("273.16")), K("4")),
                        Pow(Add(tmin, K("273.16")), K("4"))),
                    K("0.5"))),
            Sub(K("0.34"), Mul(K("0.14"), Sqrt(vp)))),
        Sub(Div(Mul(K("1.35"), r_surf), rad_s), K("0.35")))

\* lines 308-311, with rho_s = 0.0 and u_2m = 2.0
PtPet(delta_v, rad_n, gamma, tmean, e_def) ==
    Div(Add(Mul(Mul(K("0.408"), delta_v), Sub(rad_n, K("0.0"))),
            Mul(Mul(Div(Mul(gamma, K("900.0")), Add(tmean, K("273.0"))), K("2.0")), e_def)),
        Add(delta_v, Mul(gamma, Add(K("1"), Mul(K("0.34"), K("2.0"))))))

\* the PET column of lines 273-311
PtPetColumn(df, au, lat, elevation) ==
    [i \in Rows(df) |->
        LET tmax == df.columns[tmax_c(au)][i]
            tmin == df.columns[tmin_c(au)][i]
            vp == df.columns[va_pa][i]
            tmean == df.columns[tmean_c][i]
            jday == Doy(dayofyear(df.index[i].day))
            r_surf == PtRSurf(df.columns[srad_wm2(au)][i], df.columns[dayl_s][i])
            rad_s == PtRadS(elevation, jday, lat)
            rad_n == Sub(PtRadNs(r_surf), PtRadNl(tmax, tmin, vp, r_surf, rad_s))
        IN  PtPet(PtDeltaV(tmean), rad_n, PtGamma(elevation), tmean, PtEDef(tmax, tmin, vp))]


\* lines 254-264: the mean temperature is written into the caller's table, and
\* with the slip of rescaling the vapor pressure before the elevation is known
PtStepTmeanEarlyKpa(df, au, P) ==
    SetColumn(SetColumn(df, tmean_c, PtTmeanColumn(df, au)),
              va_pa, PtVpToKpa(df.columns[va_pa], P))

PtStepTmean(df, au, P) == SetColumn(df, tmean_c, PtTmeanColumn(df, au))

\* where a call goes after _check_requirements, with the check's error dropped
PtAfterCheckIgnored(r) == "tmean"

PtAfterCheck(r) == IF r.raised THEN "raised" ELSE "tmean"

\* lines 249-252
PtCheck ==
    /\ pt.pc = "call"
    /\ LET r == check_requirements(Iterable(PtReqs(pt.alt_unit)), DOMAIN pt.clm_df.columns)
       IN  pt' = [pt EXCEPT !.pc = PtAfterCheck(r),
                            !.result = IF r.raised THEN r ELSE @]
    /\ UNCHANGED <<dl, obj, chk, gr>>

\* lines 254-264
PtTmean ==
    /\ pt.pc = "tmean"
    /\ pt' = [pt EXCEPT !.pc = "elevation",
                        !.clm_df = PtStepTmean(@, pt.alt_unit, pt.P)]
    /\ UNCHANGED <<dl, obj, chk, gr>>

\* line 265: py3dep.elevation_bycoords answers with an elevation or fails, and
\* its failure leaves pet_bycoords as it is
PtElevation ==
    /\ pt.pc = "elevation"
    /\ \E ok \in BOOLEAN :
         pt' = IF ok
               THEN [pt EXCEPT !.pc = "vp_kpa", !.n_elev = @ + 1,
                               !.elevation = Val("elevation", 0, 1)]
               ELSE [pt EXCEPT !.pc = "raised", !.n_elev = @ + 1,
                               !.result = Raised("ElevationError", "elevation_bycoords")]
    /\ UNCHANGED <<dl, obj, chk, gr>>

\* lines 267-271
PtVpKpa ==
    /\ pt.pc = "vp_kpa"
    /\ pt' = [pt EXCEPT !.pc = "pet", !.n_kpa = @ + 1,
                        !.clm_df = SetColumn(@, va_pa, PtVpToKpa(@.columns[va_pa], pt.P))]
    /\ UNCHANGED <<dl, obj, chk, gr>>

\* lines 273-311
PtPetStep ==
    /\ pt.pc = "pet"
    /\ pt' = [pt EXCEPT !.pc = "vp_pa",
                        !.clm_df = SetColumn(@, pet_c,
                                       PtPetColumn(@, pt.alt_unit, pt.lat, pt.elevation))]
    /\ UNCHANGED <<dl, obj, chk, gr>>

\* line 312
PtVpPa ==
    /\ pt.pc = "vp_pa"
    /\ pt' = [pt EXCEPT !.pc = "return", !.n_pa = @ + 1,
                        !.clm_df = SetColumn(@, va_pa, PtVpToPa(@.columns[va_pa], pt.P))]
    /\ UNCHANGED <<dl, obj, chk, gr>>

\* line 314
PtReturn ==
    /\ pt.pc = "return"
    /\ pt' = [pt EXCEPT !.pc = "done", !.result = Returned(DropColumn(pt.clm_df, tmean_c))]
    /\ UNCHANGED <<dl, obj, chk, gr>>

(***************************************************************************)
(* The tables pet_bycoords is called with                                  *)
(***************************************************************************)
prcp_c == "prcp (mm/day)"

PtNames == Range(PtReqs(FALSE)) \cup Range(PtReqs(TRUE)) \cup {prcp_c}

BaseName(name) ==
    CASE name \in {tmin_c(FALSE), tmin_c(TRUE)} -> "tmin"
      [] name \in {tmax_c(FALSE), tmax_c(TRUE)} -> "tmax"
      [] name \in {srad_wm2(FALSE), srad_wm2(TRUE)} -> "srad"
      [] name = va_pa -> "vp"
      [] name = dayl_s -> "dayl"
      [] OTHER -> "prcp"

VpValues == (0 .. MaxVp) \cup {255, 1500}

\* the first days of the containers: a new year's eve of a leap year, and spring
StartDays == {ToOrdinal(2000, 12, 30), ToOrdinal(1999, 3, 1)}

TimeIndex(start) == [t \in 1 .. NumSteps |-> Timestamp(start + t - 1, 12)]

\* the value of variable v at step t in cell c: nan is the set of the <<v, t, c>>
\* where it is undefined, vp the vapor pressure in pascals where it is defined
Cell(v, t, c, vp, P, nan) ==
    IF <<v, t, c>> \in nan THEN NaN
    ELSE IF v = "vp" THEN FloatOfInt(vp, P)
    ELSE Val(v, t, c)

Table(names, start, vp, P, nan) ==
    [columns |-> [n \in names |-> [t \in 1 .. NumSteps |-> Cell(BaseName(n), t, 1, vp, P, nan)]],
     index |-> TimeIndex(start)]

PtCall(df, au, P) ==
    [pc |-> "call", clm_df |-> df, input |-> df, alt_unit |-> au, P |-> P,
     lat |-> Val("lat", 1, 1), elevation |-> NaN, result |-> Returned("None"),
     n_elev |-> 0, n_kpa |-> 0, n_pa |-> 0]

PtNanChoices == {{}, {<<"vp", 1, 1>>}, {<<"tmin", 1, 1>>, <<"tmax", 1, 1>>}}

PtCalls ==
    {PtCall(Table(names, ToOrdinal(1999, 3, 1), 1500, 53, {}), au, 53) :
        names \in SUBSET PtNames, au \in BOOLEAN}
    \cup
    {PtCall(Table(Range(PtReqs(au)) \cup {prcp_c}, start, vp, P, nan), au, P) :
        au \in BOOLEAN, start \in StartDays, vp \in VpValues, P \in Precisions,
        nan \in PtNanChoices}


(***************************************************************************)
(* Daymet.pet_bygrid                                                       *)
(***************************************************************************)
\* A dataset is [vars, keys, time, attrs]: vars maps each data variable to its
\* field, keys lists the data variables in their order, time is the time
\* coordinate.  A field is indexed by time step and then by grid cell; the
\* elevation has no time and is indexed by grid cell alone.
Cells == 1 .. NumCells

Steps == 1 .. NumSteps

GrReqs == <<"tmin", "tmax", "lat", "lon", "vp", "srad", "dayl">>

\* ds[name] = field: the variable is added last, or replaced in its place
SetVar(ds, name, field) ==
    [ds EXCEPT !.vars = [v \in DOMAIN ds.vars \cup {name} |->
                            IF v = name THEN field ELSE ds.vars[v]],
               !.keys = IF name \in DOMAIN ds.vars THEN @ ELSE Append(@, name)]

\* ds.drop_vars(names)
drop_vars(ds, names) ==
    LET Kept(k) == k \notin names
    IN  [ds EXCEPT !.vars = [v \in DOMAIN ds.vars \ names |-> ds.vars[v]],
                   !.keys = SelectSeq(@, Kept)]

\* the fields whose value at each step and cell is F of that step and cell
Field(F(_, _)) == [t \in Steps |-> [c \in Cells |-> F(t, c)]]

\* line 343
GrTmeanField(ds) ==
    LET F(t, c) == Mul(K("0.5"), Add(ds.vars["tmax"][t][c], ds.vars["tmin"][t][c]))
    IN  Field(F)

\* lines 344-348
GrSlope(tmean) ==
    Div(Mul(K("4098"),
            Mul(K("0.6108"), Exp(Div(Mul(K("17.27"), tmean), Add(tmean, K("237.3")))))),
        Pow(Add(tmean, K("237.3")), K("2")))

GrSlopeField(ds) == LET F(t, c) == GrSlope(ds.vars["tmean"][t][c]) IN Field(F)

\* lines 355-357 without the mask
ElevationUnmasked(elevation, first) == elevation

\* lines 355-357: elevation.where(~isnan(first), drop=True), assigned back to the
\* dataset, is undefined in each cell where first, the first time slice of the
\* dataset's first variable, is undefined
ElevationMasked(elevation, first) ==
    [c \in Cells |-> IF IsNaN(first[c]) THEN NaN ELSE elevation[c]]

\* lines 353-357: xr.merge([clm_ds, elev]) is a new dataset with the elevation
\* as one more variable; the attributes are put back
GrMerged(ds, elev, keys) ==
    [SetVar(ds, "elevation", ElevationMasked(elev, ds.vars[keys[1]][1])) EXCEPT
        !.attrs = ds.attrs]

\* lines 359-360
GrPa(elevation) ==
    Mul(K("101.3"),
        Pow(Div(Sub(K("293.0"), Mul(K("0.0065"), elevation)), K("293.0")), K("5.26")))

GrGammaField(ds) == [c \in Cells |-> Mul(GrPa(ds.vars["elevation"][c]), K("0.665e-3"))]

\* line 363
GrVpToKpa(field, P) ==
    [t \in Steps |-> [c \in Cells |-> FMul(field[t][c], AsType(Literal1em3, P), P)]]

\* line 408
GrVpToPa(field, P) ==
    [t \in Steps |-> [c \in Cells |-> FMul(field[t][c], AsType(Literal1e3, P), P)]]

\* lines 365-368
GrESat(t) == Mul(K("0.6108"), Exp(Div(Mul(K("17.27"), t), Add(t, K("237.3")))))

GrEDefField(ds) ==
    LET F(t, c) == Sub(Mul(Add(GrESat(ds.vars["tmax"][t][c]), GrESat(ds.vars["tmin"][t][c])),
                           K("0.5")),
                       ds.vars["vp"][t][c])
    IN  Field(F)

\* line 373: the time coordinate becomes the day of the year of each timestamp
DoyAxis(time) == [t \in DOMAIN time |-> [doy |-> dayofyear(time[t].day)]]

\* line 407 with the assignment left out
RestoredTimeForgotten(ds, dates) == ds

\* line 407
RestoredTime(ds, dates) == [ds EXCEPT !.time = dates]

\* line 374
GrRSurf(srad, dayl) == Mul(Mul(srad, dayl), K("1e-6"))

\* lines 378-390
GrJp(time) == Div(Mul(Mul(K("2.0"), Pi), time), K("365.0"))

GrDr(time) == Add(K("1.0"), Mul(K("0.033"), Cos(GrJp(time))))

GrDeltaR(time) == Mul(K("0.409"), Sin(Sub(GrJp(time), K("1.39"))))

GrPhi(lat) == Div(Mul(lat, Pi), K("180.0"))

GrWs(time, lat) == Arccos(Mul(Neg(Tan(GrPhi(lat))), Tan(GrDeltaR(time))))

GrRAero(time, lat) ==
    Mul(Mul(Mul(Div(Mul(K("24.0"), K("60.0")), Pi), K("0.082")), GrDr(time)),
        Add(Mul(Mul(GrWs(time, lat), Sin(GrPhi(lat))), Sin(GrDeltaR(time))),
            Mul(Mul(Cos(GrPhi(lat)), Cos(GrDeltaR(time))), Sin(GrWs(time, lat)))))

\* line 391
GrRadS(elevation, time, lat) ==
    Mul(Add(K("0.75"), Mul(K("2e-5"), elevation)), GrRAero(time, lat))

\* line 392, with alb = 0.23
GrRadNs(r_surf) == Mul(Sub(K("1.0"), K("0.23")), r_surf)

\* lines 393-398 with 273.0 for 273.16
GrRadNlOtherKelvin(tmax, tmin, vp, r_surf, rad_s) ==
    Mul(Mul(Mul(K("4.903e-9"),
                Mul(Add(Pow(Add(tmax, K("273.0")), K("4")),
                        Pow(Add(tmin, K("273.0")), K("4"))),
                    K("0.5"))),
            Sub(K("0.34"), Mul(K("0.14"), Sqrt(vp)))),
        Sub(Div(Mul(K("1.35"), r_surf), rad_s), K("0.35")))

\* lines 393-398
GrRadNl(tmax, tmin, vp, r_surf, rad_s) ==
    Mul(Mul(Mul(K("4.903e-9"),
                Mul(Add(Pow(Add(tmax, K("273.16")), K("4")),
                        Pow(Add(tmin, K("273.16")), K("4"))),
                    K("0.5"))),
            Sub(K("0.34"), Mul(K("0.14"), Sqrt(vp)))),
        Sub(Div(Mul(K("1.35"), r_surf), rad_s), K("0.35")))

\* lines 374-399
GrRadNField(ds, lat) ==
    LET F(t, c) ==
          LET r_surf == GrRSurf(ds.vars["srad"][t][c], ds.vars["dayl"][t][c])
              rad_s == GrRadS(ds.vars["elevation"][c], Doy(ds.time[t].doy), lat[c])
          IN  Sub(GrRadNs(r_surf),
                  GrRadNl(ds.vars["tmax"][t][c], ds.vars["tmin"][t][c], ds.vars["vp"][t][c],
                          r_surf, rad_s))
    IN  Field(F)

\* lines 401-404, with rho_s = 0.0 and u_2m = 2.0
GrPet(delta_r, rad_n, gamma, tmean, e_def) ==
    Div(Add(Mul(Mul(K("0.408"), delta_r), Sub(rad_n, K("0.0"))),
            Mul(Mul(Div(Mul(gamma, K("900.0")), Add(tmean, K("273.0"))), K("2.0")), e_def)),
        Add(delta_r, Mul(gamma, Add(K("1"), Mul(K("0.34"), K("2.0"))))))

GrPetField(ds) ==
    LET F(t, c) == GrPet(ds.vars["delta_r"][t][c], ds.vars["rad_n"][t][c],
                         ds.vars["gamma"][c], ds.vars["tmean"][t][c], ds.vars["e_def"][t][c])
    IN  Field(F)

\* where a call goes after _check_requirements
GrAfterCheck(r) == IF r.raised THEN "raised" ELSE "tmean"

\* lines 336-339
GrCheck ==
    /\ gr.pc = "call"
    /\ LET keys == gr.clm_ds.keys
           r == check_requirements(Iterable(GrReqs), Range(keys))
       IN  gr' = [gr EXCEPT !.pc = GrAfterCheck(r), !.keys = keys,
                            !.result = IF r.raised THEN r ELSE @]
    /\ UNCHANGED <<dl, obj, chk, pt>>

\* lines 341-348: tmean and delta_r are written into the caller's dataset
GrTmean ==
    /\ gr.pc = "tmean"
    /\ LET ds1 == SetVar(gr.clm_ds, "tmean", GrTmeanField(gr.clm_ds))
           ds2 == SetVar(ds1, "delta_r", GrSlopeField(ds1))
       IN  gr' = [gr EXCEPT !.pc = "elevation", !.dates = gr.clm_ds.time,
                            !.clm_ds = ds2, !.arg = ds2]
    /\ UNCHANGED <<dl, obj, chk, pt>>

\* lines 350-351: py3dep.elevation_bygrid answers with a field or fails
GrElevation ==
    /\ gr.pc = "elevation"
    /\ \E ok \in BOOLEAN :
         gr' = IF ok
               THEN [gr EXCEPT !.pc = "merge", !.n_elev = @ + 1,
                               !.elev = [c \in Cells |-> Val("elevation", 0, c)]]
               ELSE [gr EXCEPT !.pc = "raised", !.n_elev = @ + 1,
                               !.result = Raised("ElevationError", "elevation_bygrid")]
    /\ UNCHANGED <<dl, obj, chk, pt>>

\* lines 352-357: from here on clm_ds is the merged dataset, not the caller's
GrMerge ==
    /\ gr.pc = "merge"
    /\ gr' = [gr EXCEPT !.pc = "vp_kpa", !.clm_ds = GrMerged(@, gr.elev, gr.keys)]
    /\ UNCHANGED <<dl, obj, chk, pt>>

\* lines 359-368
GrVpKpa ==
    /\ gr.pc = "vp_kpa"
    /\ LET ds1 == SetVar(gr.clm_ds, "gamma", GrGammaField(gr.clm_ds))
           ds2 == SetVar(ds1, "vp", GrVpToKpa(ds1.vars["vp"], gr.P))
           ds3 == SetVar(ds2, "e_def", GrEDefField(ds2))
       IN  gr' = [gr EXCEPT !.pc = "doy", !.n_kpa = @ + 1, !.clm_ds = ds3]
    /\ UNCHANGED <<dl, obj, chk, pt>>

\* lines 372-373
GrDoy ==
    /\ gr.pc = "doy"
    /\ gr' = [gr EXCEPT !.pc = "pet", !.lat = gr.clm_ds.vars["lat"][1],
                        !.clm_ds = [@ EXCEPT !.time = DoyAxis(@)]]
    /\ UNCHANGED <<dl, obj, chk, pt>>

\* lines 374-405
GrPetStep ==
    /\ gr.pc = "pet"
    /\ LET ds1 == SetVar(gr.clm_ds, "rad_n", GrRadNField(gr.clm_ds, gr.lat))
           ds2 == SetVar(ds1, "pet", GrPetField(ds1))
       IN  gr' = [gr EXCEPT !.pc = "time", !.clm_ds = ds2]
    /\ UNCHANGED <<dl, obj, chk, pt>>

\* line 407
GrTime ==
    /\ gr.pc = "time"
    /\ gr' = [gr EXCEPT !.pc = "vp_pa", !.clm_ds = RestoredTime(@, gr.dates)]
    /\ UNCHANGED <<dl, obj, chk, pt>>

\* line 408
GrVpPa ==
    /\ gr.pc = "vp_pa"
    /\ gr' = [gr EXCEPT !.pc = "return", !.n_pa = @ + 1,
                        !.clm_ds = SetVar(@, "vp", GrVpToPa(@.vars["vp"], gr.P))]
    /\ UNCHANGED <<dl, obj, chk, pt>>

\* lines 410-412
GrReturn ==
    /\ gr.pc = "return"
    /\ LET out == drop_vars(gr.clm_ds, {"delta_r", "gamma", "e_def", "rad_n", "tmean"})
       IN  gr' = [gr EXCEPT !.pc = "done", !.clm_ds = out, !.result = Returned(out)]
    /\ UNCHANGED <<dl, obj, chk, pt>>


(***************************************************************************)
(* The datasets pet_bygrid is called with                                  *)
(***************************************************************************)
GrNames == <<"prcp", "tmin", "tmax", "lat", "lon", "vp", "srad", "dayl">>

Grid(keys, start, vp, P, nan) ==
    [vars |-> [v \in Range(keys) |->
                  [t \in Steps |-> [c \in Cells |-> Cell(v, t, c, vp, P, nan)]]],
     keys |-> keys,
     time |-> TimeIndex(start),
     attrs |-> [res |-> <<1, 1>>, crs |-> "daymet"]]

GrCall(ds, P) ==
    [pc |-> "call", clm_ds |-> ds, arg |-> ds, input |-> ds, P |-> P,
     keys |-> <<>>, dates |-> <<>>, lat |-> <<>>, elev |-> <<>>,
     result |-> Returned("None"), n_elev |-> 0, n_kpa |-> 0, n_pa |-> 0]

\* the data variables with ref moved to the front
RefFirst(ref) == LET Other(k) == k # ref IN <<ref>> \o SelectSeq(GrNames, Other)

RefChoices == {"prcp", "tmin", "vp"}

\* ref undefined in the first time slice of the cells of A; every variable
\* undefined at every step in the cells of B
Coverage(ref, A, B) ==
    {<<ref, 1, c>> : c \in A} \cup {<<v, t, c>> : v \in Range(GrNames), t \in Steps, c \in B}

GrCalls ==
    {GrCall(Grid(LET In(k) == k \in names IN SelectSeq(GrNames, In),
                 ToOrdinal(1999, 3, 1), 1500, 24, {}), 24) :
        names \in SUBSET Range(GrNames)}
    \cup
    {GrCall(Grid(RefFirst(ref), ToOrdinal(2000, 12, 30), 1500, P, Coverage(ref, A, B)), P) :
        ref \in RefChoices, A \in SUBSET Cells, B \in SUBSET Cells, P \in Precisions}
    \cup
    {GrCall(Grid(GrNames, start, vp, P, {}), P) :
        start \in StartDays, vp \in VpValues, P \in Precisions}

(***************************************************************************)
(* One call: of the requirement checker on its own, or of one engine on a  *)
(* container of its own                                                    *)
(***************************************************************************)
Init ==
    /\ dl = Idle /\ obj = Idle
    /\ \/ chk \in CheckCalls /\ pt = Idle /\ gr = Idle
       \/ pt \in PtCalls /\ chk = Idle /\ gr = Idle
       \/ gr \in GrCalls /\ chk = Idle /\ pt = Idle

Engines ==
    \/ PtCheck \/ PtTmean \/ PtElevation \/ PtVpKpa \/ PtPetStep \/ PtVpPa \/ PtReturn
    \/ GrCheck \/ GrTmean \/ GrElevation \/ GrMerge \/ GrVpKpa \/ GrDoy \/ GrPetStep
    \/ GrTime \/ GrVpPa \/ GrReturn

Next == CheckCall \/ Engines

Spec == Init /\ [][Next]_vars

(***************************************************************************)
(* Both engines called on the same data: the table holds, at every step,   *)
(* the values of cell 1 of the grid, the latitude is that of cell 1 and    *)
(* both elevation lookups answer alike.                                    *)
(***************************************************************************)
AgreeNan(ref) ==
    {{}} \cup {{<<v, t, 1>>} : v \in {ref, "tmin", "srad"}, t \in Steps}
         \cup {{<<v, t, 1>> : v \in Range(GrNames)} : t \in Steps}

InitAgree ==
    /\ dl = Idle /\ obj = Idle /\ chk = Idle
    /\ \E ref \in RefChoices, au \in BOOLEAN, P \in Precisions, vp \in {9, 1500},
          start \in {ToOrdinal(2000, 12, 30)} :
         \E nan \in AgreeNan(ref) :
           /\ pt = PtCall(Table(Range(PtReqs(au)) \cup {prcp_c}, start, vp, P, nan), au, P)
           /\ gr = GrCall(Grid(RefFirst(ref), start, vp, P, nan), P)

SpecAgree == InitAgree /\ [][Engines]_vars


(***************************************************************************)
(* Properties                                                              *)
(***************************************************************************)
PtDone == pt.pc = "done"

GrDone == gr.pc = "done"

PtFailedCheck == pt.pc = "raised" /\ pt.result.kind = "MissingItems"

GrFailedCheck == gr.pc = "raised" /\ gr.result.kind = "MissingItems"

\* C1: the container either engine returns has exactly the variables of its
\* input and one new PET variable, and none that the computation introduced
C1_OutputHasInputPlusPet ==
    /\ PtDone =>
         /\ pet_c \notin DOMAIN pt.input.columns
         /\ DOMAIN pt.result.value.columns = DOMAIN pt.input.columns \cup {pet_c}
    /\ GrDone =>
         /\ "pet" \notin DOMAIN gr.input.vars
         /\ DOMAIN gr.result.value.vars = DOMAIN gr.input.vars \cup {"pet"}
         /\ {"tmean", "delta_r", "gamma", "e_def", "rad_n", "elevation"}
                \cap DOMAIN gr.result.value.vars = {}

\* C1, what the code does: the table returned has the input's columns and the
\* PET column; the dataset returned has the input's variables, pet, and the
\* elevation that the merge brought in
C1_GridKeepsElevation ==
    /\ PtDone => DOMAIN pt.result.value.columns = DOMAIN pt.input.columns \cup {pet_c}
    /\ GrDone => DOMAIN gr.result.value.vars = DOMAIN gr.input.vars \cup {"pet", "elevation"}

C1_Witness ==
    /\ GrDone
    /\ "elevation" \in DOMAIN gr.result.value.vars
    /\ "elevation" \notin DOMAIN gr.input.vars
    /\ {"tmean", "delta_r", "gamma", "e_def", "rad_n"} \cap DOMAIN gr.result.value.vars = {}

\* the names some required name list asks for and a container lacks
Lacking(reqs, present) == {r \in Range(reqs) : r \notin present}

\* C2: the requirement checker raises the missing-items error with exactly the
\* required names that are absent, and raises nothing when none is absent; so
\* does each engine, which stops there and otherwise goes on
C2_MissingItemsExact ==
    /\ chk.pc = "done" /\ chk.reqs.iterable =>
         IF Lacking(chk.reqs.items, chk.cols) = {}
         THEN ~chk.result.raised
         ELSE /\ chk.result.raised
              /\ chk.result.kind = "MissingItems"
              /\ Range(chk.result.value) = Lacking(chk.reqs.items, chk.cols)
    /\ pt.pc \notin {"idle", "call"} =>
         IF Lacking(PtReqs(pt.alt_unit), DOMAIN pt.input.columns) = {}
         THEN ~PtFailedCheck
         ELSE /\ PtFailedCheck
              /\ Range(pt.result.value)
                    = Lacking(PtReqs(pt.alt_unit), DOMAIN pt.input.columns)
    /\ gr.pc \notin {"idle", "call"} =>
         IF Lacking(GrReqs, DOMAIN gr.input.vars) = {}
         THEN ~GrFailedCheck
         ELSE /\ GrFailedCheck
              /\ Range(gr.result.value) = Lacking(GrReqs, DOMAIN gr.input.vars)

C2_Witness ==
    /\ chk.pc = "done"
    /\ chk.result.raised
    /\ Cardinality(Lacking(chk.reqs.items, chk.cols)) = 2
    /\ Cardinality(Range(chk.reqs.items)) = 3

\* the vapor pressure of the table and of the dataset, as sequences of values
PtVp(df) == df.columns[va_pa]

GrVp(ds) == ds.vars["vp"]

\* C3, as claimed: in a successful call the vapor pressure is scaled to kPa
\* once and back once, and the returned values equal the input's
C3_VaporPressureRestoredExactly ==
    /\ PtDone =>
         /\ pt.n_kpa = 1 /\ pt.n_pa = 1
         /\ PtVp(pt.result.value) = PtVp(pt.input)
    /\ GrDone =>
         /\ gr.n_kpa = 1 /\ gr.n_pa = 1
         /\ GrVp(gr.result.value) = GrVp(gr.input)

\* a returned value that is the input value but for the rounding of the two
\* multiplications, and that is not the kPa value unless the input is 0 or NaN
RestoredWithinRounding(in, out, P) ==
    /\ WithinUlps(in, out, 2, P)
    /\ (~IsNaN(in) /\ Len(in[2]) > 0) => out # FMul(in, AsType(Literal1em3, P), P)

\* C3, amended: in a successful call the vapor pressure is scaled to kPa once
\* and back once, and each returned value is within two units in the last
\* place of the input value (it is not always equal to it), and is not the
\* kPa value unless the value is 0 or undefined
C3_VaporPressureRestoredWithinRounding ==
    /\ PtDone =>
         /\ pt.n_kpa = 1 /\ pt.n_pa = 1
         /\ \A t \in Steps :
              RestoredWithinRounding(PtVp(pt.input)[t], PtVp(pt.result.value)[t], pt.P)
    /\ GrDone =>
         /\ gr.n_kpa = 1 /\ gr.n_pa = 1
         /\ \A t \in Steps, c \in Cells :
              RestoredWithinRounding(GrVp(gr.input)[t][c], GrVp(gr.result.value)[t][c], gr.P)

C3_Witness ==
    /\ GrDone
    /\ gr.P = 24
    /\ GrVp(gr.input)[1][1] = FloatOfInt(255, 24)
    /\ GrVp(gr.result.value)[1][1] = FUp(FUp(FloatOfInt(255, 24), 24), 24)

\* the first time slice of the dataset's first variable
GrFirstSlice == gr.input.vars[gr.input.keys[1]][1]

\* C4: where the first time slice of the dataset's first variable is undefined,
\* the elevation is undefined and so is pet at every time step
C4_UncoveredCellsUndefined ==
    \A c \in Cells :
      /\ gr.pc \in {"vp_kpa", "doy", "pet", "time", "vp_pa", "return", "done"}
           /\ IsNaN(GrFirstSlice[c])
           => IsNaN(gr.clm_ds.vars["elevation"][c])
      /\ gr.pc \in {"time", "vp_pa", "return", "done"} /\ IsNaN(GrFirstSlice[c])
           => \A t \in Steps : IsNaN(gr.clm_ds.vars["pet"][t][c])

C4_Witness ==
    /\ GrDone
    /\ IsNaN(GrFirstSlice[1])
    /\ \A v \in DOMAIN gr.input.vars \ {gr.input.keys[1]}, t \in Steps :
         ~IsNaN(gr.input.vars[v][t][1])
    /\ \A t \in Steps : IsNaN(gr.result.value.vars["pet"][t][1])
    /\ \A t \in Steps : ~IsNaN(gr.result.value.vars["pet"][t][2])

\* C5: the time coordinate of the dataset holds day-of-year numbers only from
\* the solar geometry to the restoring assignment, and the returned dataset
\* has the time coordinate of the input
C5_TimeAxisRestored ==
    /\ gr.pc \in {"pet", "time"} => gr.clm_ds.time = DoyAxis(gr.input.time)
    /\ gr.pc \in {"call", "tmean", "elevation", "merge", "vp_kpa", "doy", "vp_pa", "return",
                  "raised", "done"}
         => gr.clm_ds.time = gr.input.time
    /\ GrDone => gr.result.value.time = gr.input.time

C5_Witness ==
    /\ GrDone
    /\ gr.result.value.time = gr.input.time
    /\ DoyAxis(gr.input.time) = <<[doy |-> 365], [doy |-> 366]>> \o
                                [t \in 1 .. NumSteps - 2 |-> [doy |-> t]]
    /\ "pet" \in DOMAIN gr.result.value.vars

\* C6, as claimed: the requirement check, then the elevation lookup, then the
\* formula and the return: nothing of the formula is in the container before
\* the lookup is called; the lookup is called once in a call whose check
\* passes, and not at all, on an untouched container, in one whose check fails
C6_LookupBeforeFormula ==
    /\ pt.pc # "idle" =>
         /\ pt.n_elev = 0 => pt.clm_df = pt.input
         /\ PtDone => pt.n_elev = 1
         /\ PtFailedCheck => pt.n_elev = 0 /\ pt.clm_df = pt.input
    /\ gr.pc # "idle" =>
         /\ gr.n_elev = 0 => gr.arg = gr.input
         /\ GrDone => gr.n_elev = 1
         /\ GrFailedCheck => gr.n_elev = 0 /\ gr.arg = gr.input

PtComplete == Lacking(PtReqs(pt.alt_unit), DOMAIN pt.input.columns) = {}

GrComplete == Lacking(GrReqs, DOMAIN gr.input.vars) = {}

\* C6, amended: the requirement check, then the mean temperature and the slope
\* of the saturation curve (which write into the caller's container), then
\* the elevation lookup, then the rest of the formula and the return; the
\* lookup is called once in a call whose check passes, and not at all, on an
\* untouched container, in one whose check fails
C6_CheckThenTmeanThenLookup ==
    /\ pt.pc # "idle" =>
         /\ pt.pc \in {"call", "tmean"} => pt.n_elev = 0 /\ pt.clm_df = pt.input
         /\ pt.pc \notin {"call", "raised"} => PtComplete
         /\ PtFailedCheck => ~PtComplete /\ pt.n_elev = 0 /\ pt.clm_df = pt.input
         /\ pt.pc = "elevation" =>
              /\ pt.n_elev = 0
              /\ pt.clm_df = SetColumn(pt.input, tmean_c, PtTmeanColumn(pt.input, pt.alt_unit))
         /\ pt.pc \in {"vp_kpa", "pet", "vp_pa", "return", "done"} => pt.n_elev = 1
         /\ pet_c \in DOMAIN pt.clm_df.columns => pt.n_elev = 1
         /\ pt.n_elev <= 1
    /\ gr.pc # "idle" =>
         /\ gr.pc \in {"call", "tmean"} => gr.n_elev = 0 /\ gr.arg = gr.input
         /\ gr.pc \notin {"call", "raised"} => GrComplete
         /\ GrFailedCheck => ~GrComplete /\ gr.n_elev = 0 /\ gr.arg = gr.input
         /\ gr.pc = "elevation" =>
              /\ gr.n_elev = 0
              /\ DOMAIN gr.arg.vars = DOMAIN gr.input.vars \cup {"tmean", "delta_r"}
         /\ gr.pc \in {"merge", "vp_kpa", "doy", "pet", "time", "vp_pa", "return", "done"}
              => gr.n_elev = 1
         /\ "pet" \in DOMAIN gr.clm_ds.vars => gr.n_elev = 1
         /\ gr.n_elev <= 1

C6_Witness ==
    /\ PtDone
    /\ pt.n_elev = 1
    /\ tmean_c \in DOMAIN pt.clm_df.columns
    /\ pet_c \in DOMAIN pt.result.value.columns

\* the PET values of the table and of cell 1 of the grid, step by step
PetAgrees ==
    \A t \in Steps : pt.result.value.columns[pet_c][t] = gr.result.value.vars["pet"][t][1]

\* C7, as claimed: on identical values, latitude and elevation the two engines
\* produce equal PET values at every time step
C7_PointAndGridAgree == PtDone /\ GrDone => PetAgrees

\* C7, amended: ... the two engines produce equal PET values at every time
\* step, provided the first variable of the grid is defined in the cell at
\* the first time step (otherwise the grid's PET is undefined at every step,
\* whatever the table's)
C7_PointAndGridAgreeWhereCovered ==
    PtDone /\ GrDone /\ ~IsNaN(GrFirstSlice[1]) => PetAgrees

C7_Witness ==
    /\ PtDone /\ GrDone
    /\ PetAgrees
    /\ \E t \in Steps : IsNaN(gr.result.value.vars["pet"][t][1])
    /\ \E t \in Steps : ~IsNaN(gr.result.value.vars["pet"][t][1])

\* the year a whole-year call is about
WholeYearOf == dl.years[1]

\* divisible by 4 and not by 100, or divisible by 400
Leap(y) == (y % 4 = 0 /\ y % 100 # 0) \/ y % 400 = 0

IsDec31(ts) == MonthOf(ts.day) = 12 /\ DayOf(ts.day) = 31

\* C8: for a year Y from 1980 on, dates_tolist((Y-01-01, Y-12-31)) and
\* years_tolist(Y) return the same single pair, from January 1 to December 30
\* of Y in a leap year and to December 31 otherwise; no pair of dates_tolist
\* begins or ends on December 31 of a leap year or spans two years
C8_LeapYearRanges ==
    dl.pc = "done" =>
      /\ dl.whole /\ WholeYearOf >= 1980 =>
           /\ ~dl.by_dates.raised
           /\ dl.by_dates.value = dl.by_years.value
           /\ Len(dl.by_dates.value) = 1
           /\ dl.by_dates.value[1][1] = Timestamp(ToOrdinal(WholeYearOf, 1, 1), 12)
           /\ dl.by_dates.value[1][2] =
                Timestamp(ToOrdinal(WholeYearOf, 12, IF Leap(WholeYearOf) THEN 30 ELSE 31), 12)
      /\ ~dl.by_dates.raised =>
           \A i \in 1 .. Len(dl.by_dates.value) :
             LET pair == dl.by_dates.value[i]
             IN  /\ YearOf(pair[1].day) = YearOf(pair[2].day)
                 /\ \A k \in 1 .. 2 : ~(Leap(YearOf(pair[k].day)) /\ IsDec31(pair[k]))

C8_Witness ==
    /\ dl.pc = "done"
    /\ dl.whole /\ WholeYearOf = 2000
    /\ dl.by_dates.value = dl.by_years.value
    /\ strftime(dl.by_dates.value[1][2]) = IsoDate(2000, 12, 30)

\* C9: constructing Daymet with pet=True and another time scale than daily
\* fails with the input-range error whatever the variables, None included;
\* and a construction with pet=True that succeeds has all of tmin, tmax, vp,
\* srad and dayl among its variables, and only valid names
C9_PetNeedsDailyScale ==
    obj.pc = "done" /\ obj.pet =>
      /\ /\ obj.time_scale \in Range(time_codes) \ {"daily"}
         /\ obj.region \in Range(valid_regions)
         /\ obj.variables.kind # "none" => Range(AsList(obj.variables))
                                              \subseteq Range(valid_variables)
         => obj.result.raised /\ obj.result.kind = "InvalidInputRange"
      /\ ~obj.result.raised =>
           /\ Range(reqs_pet) \subseteq obj.result.value.variables
           /\ obj.result.value.variables \subseteq Range(valid_variables)

\* C9, what the code does: with variables None the construction never looks at
\* pet, and succeeds with every valid variable whatever the time scale; with
\* variables given, pet=True and another time scale than daily is refused
C9_NoneSkipsPetCheck ==
    obj.pc = "done" /\ obj.pet
      /\ obj.time_scale \in Range(time_codes) /\ obj.region \in Range(valid_regions) =>
        IF obj.variables.kind = "none"
        THEN ~obj.result.raised /\ obj.result.value.variables = Range(valid_variables)
        ELSE obj.time_scale # "daily" => obj.result.raised

C9_Witness ==
    /\ obj.pc = "done"
    /\ obj.pet /\ obj.time_scale = "monthly" /\ obj.variables.kind = "none"
    /\ ~obj.result.raised
    /\ obj.result.value.time_scale = "monthly"

\* C10: when the elevation lookup of pet_bycoords fails, the failure is what the
\* caller gets, after one call of the lookup and with no table returned, and
\* the caller's table is the input with the mean temperature column added:
\* the vapor pressure is in pascals still and there is no PET column
C10_LookupFailureLeavesTmeanOnly ==
    pt.pc = "raised" /\ pt.result.kind # "MissingItems" =>
      /\ pt.result = Raised("ElevationError", "elevation_bycoords")
      /\ pt.n_elev = 1
      /\ DOMAIN pt.clm_df.columns = DOMAIN pt.input.columns \cup {tmean_c}
      /\ \A n \in DOMAIN pt.input.columns \ {tmean_c} : pt.clm_df.columns[n] = pt.input.columns[n]
      /\ pt.clm_df.columns[va_pa] = pt.input.columns[va_pa]
      /\ pt.n_kpa = 0
      /\ pet_c \notin DOMAIN pt.clm_df.columns
      /\ pt.clm_df.index = pt.input.index

C10_Witness ==
    /\ pt.pc = "raised"
    /\ pt.result.kind = "ElevationError"
    /\ tmean_c \in DOMAIN pt.clm_df.columns
    /\ tmean_c \notin DOMAIN pt.input.columns
    /\ PtVp(pt.input)[1] = FloatOfInt(9, 53)

====
